---- MODULE Spec2Model ----
(***************************************************************************)
(* Model of the forum storage engine of store.go: the append-only log,     *)
(* its replay (readExistingData), the in-memory index (store.topics,       *)
(* store.posts, store.blockedIPAddresses) and the mutation operations.     *)
(*                                                                         *)
(* Strings are sequences of one-character strings.  Go slices are modelled *)
(* as headers [arr, len] over backing arrays kept in a heap, because the   *)
(* code keeps pointers to Topic and Post into slices that append() may     *)
(* reallocate.                                                              *)
(***************************************************************************)
EXTENDS Integers, Sequences, FiniteSets, TLC

(***************************************************************************)
(* Bounds of the model.                                                    *)
(***************************************************************************)
MaxTopics == 2
MaxPosts == 2
MaxWrites == 3
MaxPage == 2
MaxName == 4
MaxLines == 4

(***************************************************************************)
(* Characters and strings.                                                 *)
(***************************************************************************)
NL == "\n"
SEP == "|"

Digits == <<"0", "1", "2", "3", "4", "5", "6", "7", "8", "9">>
HexDigits == <<"0", "1", "2", "3", "4", "5", "6", "7", "8", "9",
               "a", "b", "c", "d", "e", "f">>

IsDigit(c) == \E i \in 1..10 : Digits[i] = c
DigitVal(c) == (CHOOSE i \in 1..10 : Digits[i] = c) - 1

Last(s) == s[Len(s)]
Front(s) == SubSeq(s, 1, Len(s) - 1)

\* s[n:] of Go, n counted from 0
From(s, n) == SubSeq(s, n + 1, Len(s))

RECURSIVE Concat(_)
Concat(ss) == IF ss = <<>> THEN <<>> ELSE Head(ss) \o Concat(Tail(ss))

\* strings.Split(s, sep) for a one-character separator: n separators give
\* n+1 parts, the empty string gives one empty part
RECURSIVE SplitFrom(_, _, _, _, _)
SplitFrom(s, sep, i, cur, acc) ==
    IF i > Len(s) THEN Append(acc, cur)
    ELSE IF s[i] = sep THEN SplitFrom(s, sep, i + 1, <<>>, Append(acc, cur))
    ELSE SplitFrom(s, sep, i + 1, Append(cur, s[i]), acc)

Split(s, sep) == SplitFrom(s, sep, 1, <<>>, <<>>)

\* strconv.Itoa / fmt "%d"
RECURSIVE NatStr(_)
NatStr(n) == IF n < 10 THEN <<Digits[n + 1]>>
             ELSE NatStr(n \div 10) \o <<Digits[(n % 10) + 1]>>

Itoa(n) == IF n < 0 THEN <<"-">> \o NatStr(0 - n) ELSE NatStr(n)

RECURSIVE DigitsVal(_, _)
DigitsVal(s, acc) == IF s = <<>> THEN acc
                     ELSE DigitsVal(Tail(s), acc * 10 + DigitVal(Head(s)))

\* strconv.Atoi: an optional sign, then one or more decimal digits
Atoi(s) ==
    LET body == IF s # <<>> /\ Head(s) \in {"+", "-"} THEN Tail(s) ELSE s
        ok == body # <<>> /\ \A i \in 1..Len(body) : IsDigit(body[i])
        mag == IF ok THEN DigitsVal(body, 0) ELSE 0
    IN  [ok |-> ok,
         val |-> IF s # <<>> /\ Head(s) = "-" THEN 0 - mag ELSE mag]

remSep(s) == SelectSeq(s, LAMBDA c : c # SEP)

\* hex.EncodeToString of one byte
HexByte(b) == <<HexDigits[(b \div 16) + 1], HexDigits[(b % 16) + 1]>>

ipAddrToInternal(ipAddr) ==
    LET parts == Split(ipAddr, ".")
        \* num, _ := strconv.Atoi(p); nums[n] = byte(num)
        num(p) == Atoi(p).val % 256
        s == Concat([n \in 1..4 |-> HexByte(num(parts[n]))])
    IN  IF Len(parts) = 4
        THEN IF s[1] = "0" THEN From(s, 1) ELSE s
        ELSE ipAddr

\* hex.DecodeString: [ok, val], val the bytes; an odd length or a character
\* that is no hex digit is an error
UpperHexDigits == <<"A", "B", "C", "D", "E", "F">>

IsHexDigit(c) == (\E i \in 1..16 : HexDigits[i] = c)
                 \/ (\E i \in 1..6 : UpperHexDigits[i] = c)

HexVal(c) == IF \E i \in 1..16 : HexDigits[i] = c
             THEN (CHOOSE i \in 1..16 : HexDigits[i] = c) - 1
             ELSE (CHOOSE i \in 1..6 : UpperHexDigits[i] = c) + 9

HexDecodeString(s) ==
    IF Len(s) % 2 = 0 /\ \A i \in 1..Len(s) : IsHexDigit(s[i])
    THEN [ok |-> TRUE,
          val |-> [k \in 1..(Len(s) \div 2) |->
                      16 * HexVal(s[2 * k - 1]) + HexVal(s[2 * k])]]
    ELSE [ok |-> FALSE, val |-> <<>>]

\* fmt.Sprintf("%d.%d.%d.%d", d[0], d[1], d[2], d[3])
DottedQuad(d) ==
    Itoa(d[1]) \o <<".">> \o Itoa(d[2]) \o <<".">> \o Itoa(d[3])
    \o <<".">> \o Itoa(d[4])

ipAddrInternalToOriginalNoPad(s) ==
    IF Len(s) = 8 /\ HexDecodeString(s).ok
    THEN DottedQuad(HexDecodeString(s).val)
    ELSE s

ipAddrInternalToOriginal(s) ==
    LET s2 == <<"0">> \o s
    IN  IF Len(s) = 7 /\ HexDecodeString(s2).ok
        THEN DottedQuad(HexDecodeString(s2).val)
        ELSE IF Len(s) = 8 /\ HexDecodeString(s).ok
        THEN DottedQuad(HexDecodeString(s).val)
        ELSE s

\* strings.HasPrefix
HasPrefix(s, prefix) ==
    Len(s) >= Len(prefix) /\ SubSeq(s, 1, Len(prefix)) = prefix

\* the author token of a name: "t:" + name for a twitter login, else the
\* name typed, without its first two characters when the second is ':'
MakeInternalUserName(userName, twitter) ==
    IF twitter THEN <<"t", ":">> \o userName
    ELSE IF Len(userName) >= 2 /\ userName[2] = ":"
    THEN IF Len(userName) > 2 THEN From(userName, 2) ELSE SubSeq(userName, 1, 1)
    ELSE userName

\* Post.IsTwitterUser
IsTwitterUser(p) == HasPrefix(p.UserNameInternal, <<"t", ":">>)

\* Post.IpAddress
IpAddress(p) == ipAddrInternalToOriginal(p.IpAddrInternal)

(***************************************************************************)
(* Message bodies and their SHA-1.  The digest is abstract; its base64     *)
(* text (28 characters ending in one '=' in the code) is abbreviated to    *)
(* four characters ending in '='.                                          *)
(***************************************************************************)
Msgs == {"World", "Again"}
Sha1OfBytes(msg) == IF msg = "World" THEN "cLyl" ELSE "k9Qx"
Base64Encode(sha1) == IF sha1 = "cLyl" THEN <<"c", "L", "y", "=">>
                      ELSE <<"k", "9", "Q", "=">>
\* [ok, val]: DecodeString fails on text that is no base64 of a digest
Base64Decode(s) ==
    IF s = <<"c", "L", "y", "=">> THEN [ok |-> TRUE, val |-> "cLyl"]
    ELSE IF s = <<"k", "9", "Q", "=">> THEN [ok |-> TRUE, val |-> "k9Qx"]
    ELSE [ok |-> FALSE, val |-> ""]

(***************************************************************************)
(* Slices over heap arrays.  A header is [arr, len]; arr = 0 is the        *)
(* slice of make([]T, 0), with capacity 0.  An array is [cap, elems],      *)
(* elems being the elements written so far.                                *)
(***************************************************************************)
EmptySlice == [arr |-> 0, len |-> 0]

SliceCap(arrs, hdr) == IF hdr.arr = 0 THEN 0 ELSE arrs[hdr.arr].cap

\* the elements a slice header denotes
Elems(arrs, hdr) ==
    IF hdr.arr = 0 THEN <<>> ELSE SubSeq(arrs[hdr.arr].elems, 1, hdr.len)

\* runtime.growslice for small slices: the capacity doubles.  For Topic
\* (48 bytes) and Post (104 bytes) the capacities are 1, 2, 4, 8: the
\* size classes of the allocator add no element.
GrowCap(cap) == IF cap = 0 THEN 1 ELSE 2 * cap

Put(elems, i, x) == IF i <= Len(elems) THEN [elems EXCEPT ![i] = x]
                    ELSE Append(elems, x)

\* append(slice, x): in place when capacity allows, else into a new array
\* that holds a copy of the slice's elements
SliceAppend(arrs, hdr, x) ==
    IF hdr.len < SliceCap(arrs, hdr)
    THEN [arrs |-> [arrs EXCEPT ![hdr.arr].elems = Put(@, hdr.len + 1, x)],
          hdr |-> [arr |-> hdr.arr, len |-> hdr.len + 1]]
    ELSE [arrs |-> Append(arrs, [cap |-> GrowCap(SliceCap(arrs, hdr)),
                                 elems |-> Append(Elems(arrs, hdr), x)]),
          hdr |-> [arr |-> Len(arrs) + 1, len |-> hdr.len + 1]]

(***************************************************************************)
(* The index.  A world w is a record of the Store's collections and the    *)
(* heap they live in:                                                      *)
(*   topics              header of store.topics ([]Topic)                  *)
(*   posts               store.posts, a sequence of pointers to Post       *)
(*   blockedIPAddresses  store.blockedIPAddresses                          *)
(*   tarr, parr          the heap's Topic arrays and Post arrays           *)
(* A pointer is [a, i]: element i (from 1) of array a.  A Topic is         *)
(* [Id, Subject, Posts] with Posts a slice header; a Post is               *)
(* [Id, CreatedOn, MessageSha1, UserNameInternal, IpAddrInternal,          *)
(*  IsDeleted, Topic] with Topic a pointer to Topic.                       *)
(***************************************************************************)
Nil == [a |-> 0, i |-> 0]

\* NewStore: posts: make([]*Post, 0), topics: make([]Topic, 0)
EmptyWorld == [topics |-> EmptySlice, posts |-> <<>>,
               blockedIPAddresses |-> <<>>, tarr |-> <<>>, parr |-> <<>>]

\* *ptr for a pointer to Topic, *ptr for a pointer to Post
TopicAt(w, ptr) == w.tarr[ptr.a].elems[ptr.i]
PostAt(w, ptr) == w.parr[ptr.a].elems[ptr.i]

\* the Topic values of store.topics, the Post values of a Topic
StoreTopics(w) == Elems(w.tarr, w.topics)
TopicPosts(w, t) == Elems(w.parr, t.Posts)

\* index from 0 of the first occurrence, -1 when absent
stringIndex(arr, el) ==
    IF \E i \in 1..Len(arr) : arr[i] = el
    THEN (CHOOSE i \in 1..Len(arr) :
              arr[i] = el /\ \A j \in 1..(i - 1) : arr[j] # el) - 1
    ELSE -1

\* a[i] = a[l]; *arr = a[:l]   (i from 0)
deleteStringAt(arr, i) ==
    SubSeq([arr EXCEPT ![i + 1] = arr[Len(arr)]], 1, Len(arr) - 1)

deleteStringIn(a, el) ==
    LET i == stringIndex(a, el)
    IN  IF -1 # i THEN deleteStringAt(a, i) ELSE a

\* the new value of store.blockedIPAddresses
markIPBlockedOrUnblocked(blockedList, ipAddrInternal, blocked) ==
    IF blocked THEN Append(blockedList, ipAddrInternal)
    ELSE deleteStringIn(blockedList, ipAddrInternal)

(***************************************************************************)
(* Replay.  A replay state r is a world plus topicIDToTopic (map) and the  *)
(* flag panicked, set by any panic of the parsers or of the Go runtime.    *)
(***************************************************************************)
Panic(r) == [r EXCEPT !.panicked = TRUE]

\* [ok, topicID, postID]
parseDelUndel(d) ==
    LET parts == Split(From(d, 1), SEP)
        topicID == Atoi(parts[1])
        postID == Atoi(parts[2])
    IN  IF Len(parts) # 2 \/ ~topicID.ok \/ ~postID.ok
        THEN [ok |-> FALSE, topicID |-> 0, postID |-> 0]
        ELSE [ok |-> TRUE, topicID |-> topicID.val, postID |-> postID.val]

\* [ok, ptr]: the pointer &topic.Posts[postId-1]; ok is FALSE on a panic,
\* that of the index expression for postId < 1 included
findPostToDelUndel(r, d) ==
    LET q == parseDelUndel(d)
        topic == TopicAt(r, r.map[q.topicID])
    IN  IF ~q.ok \/ q.topicID \notin DOMAIN r.map THEN [ok |-> FALSE, ptr |-> Nil]
        ELSE IF q.postID > topic.Posts.len \/ q.postID < 1
        THEN [ok |-> FALSE, ptr |-> Nil]
        ELSE [ok |-> TRUE, ptr |-> [a |-> topic.Posts.arr, i |-> q.postID]]

\* [ok, t]
parseTopic(line) ==
    LET parts == Split(From(line, 1), SEP)
        id == Atoi(parts[1])
    IN  IF Len(parts) # 2 \/ ~id.ok THEN [ok |-> FALSE, t |-> Nil]
        ELSE [ok |-> TRUE,
              t |-> [Id |-> id.val, Subject |-> parts[2], Posts |-> EmptySlice]]

\* [ok, val]
intStrToBool(s) ==
    LET i == Atoi(s)
    IN  IF i.ok /\ i.val \in {0, 1} THEN [ok |-> TRUE, val |-> (i.val = 1)]
        ELSE [ok |-> FALSE, val |-> FALSE]

\* [ok, ipAddr, blocked]; line[1:] of an empty line panics
parseBlockUnblockIPAddr(line) ==
    LET parts == Split(From(line, 1), SEP)
        b == intStrToBool(parts[2])
    IN  IF Len(line) < 1 \/ Len(parts) # 2 \/ ~b.ok
        THEN [ok |-> FALSE, ipAddr |-> <<>>, blocked |-> FALSE]
        ELSE [ok |-> TRUE, ipAddr |-> parts[1], blocked |-> b.val]

\* [ok, post]
parsePostStrict(r, line) ==
    LET parts == Split(From(line, 1), SEP)
        topicID == Atoi(parts[1])
        id == Atoi(parts[2])
        createdOnSeconds == Atoi(parts[3])
        msgSha1 == Base64Decode(parts[4] \o <<"=">>)
        t == r.map[topicID.val]
        realPostID == TopicAt(r, t).Posts.len + 1
    IN  IF \/ Len(parts) # 6
           \/ ~topicID.ok \/ ~id.ok \/ ~createdOnSeconds.ok
           \/ ~msgSha1.ok
           \/ topicID.val \notin DOMAIN r.map
        THEN [ok |-> FALSE, post |-> Nil]
        ELSE IF id.val # realPostID THEN [ok |-> FALSE, post |-> Nil]
        ELSE [ok |-> TRUE,
              post |-> [Id |-> realPostID,
                        CreatedOn |-> createdOnSeconds.val,
                        MessageSha1 |-> msgSha1.val,
                        UserNameInternal |-> parts[6],
                        IpAddrInternal |-> parts[5],
                        IsDeleted |-> FALSE,
                        Topic |-> t]]

\* [ok, post]
parsePost(r, line) ==
    LET parts == Split(From(line, 1), SEP)
        topicID == Atoi(parts[1])
        id == Atoi(parts[2])
        createdOnSeconds == Atoi(parts[3])
        msgSha1 == Base64Decode(parts[4] \o <<"=">>)
        t == r.map[topicID.val]
        realPostID == TopicAt(r, t).Posts.len + 1
    IN  IF \/ Len(parts) # 6
           \/ ~topicID.ok \/ ~id.ok \/ ~createdOnSeconds.ok
           \/ ~msgSha1.ok
           \/ topicID.val \notin DOMAIN r.map
        THEN [ok |-> FALSE, post |-> Nil]
        ELSE [ok |-> TRUE,
              post |-> [Id |-> realPostID,
                        CreatedOn |-> createdOnSeconds.val,
                        MessageSha1 |-> msgSha1.val,
                        UserNameInternal |-> parts[6],
                        IpAddrInternal |-> parts[5],
                        IsDeleted |-> FALSE,
                        Topic |-> t]]

\* case 'T'
ReplayTopic(r, line) ==
    LET q == parseTopic(line)
        ap == SliceAppend(r.tarr, r.topics, q.t)
    IN  IF ~q.ok THEN Panic(r)
        ELSE [r EXCEPT !.tarr = ap.arrs, !.topics = ap.hdr,
                       !.map = (q.t.Id :> [a |-> ap.hdr.arr, i |-> ap.hdr.len]) @@ @]

\* case 'P': t := post.Topic; t.Posts = append(t.Posts, post);
\* store.posts = append(store.posts, &t.Posts[len(t.Posts)-1])
ReplayPost(r, line) ==
    LET q == parsePost(r, line)
        t == q.post.Topic
        ap == SliceAppend(r.parr, TopicAt(r, t).Posts, q.post)
    IN  IF ~q.ok THEN Panic(r)
        ELSE [r EXCEPT !.parr = ap.arrs,
                       !.tarr[t.a].elems[t.i].Posts = ap.hdr,
                       !.posts = Append(@, [a |-> ap.hdr.arr, i |-> ap.hdr.len])]

ReplayDeleteStrict(r, line) ==
    LET q == findPostToDelUndel(r, line)
    IN  IF ~q.ok THEN Panic(r)
        ELSE IF PostAt(r, q.ptr).IsDeleted THEN Panic(r)
        ELSE [r EXCEPT !.parr[q.ptr.a].elems[q.ptr.i].IsDeleted = TRUE]

\* case 'D'
ReplayDelete(r, line) ==
    LET q == findPostToDelUndel(r, line)
    IN  IF ~q.ok THEN Panic(r)
        ELSE [r EXCEPT !.parr[q.ptr.a].elems[q.ptr.i].IsDeleted = TRUE]

\* case 'U'
ReplayUndelete(r, line) ==
    LET q == findPostToDelUndel(r, line)
    IN  IF ~q.ok THEN Panic(r)
        ELSE IF ~PostAt(r, q.ptr).IsDeleted THEN Panic(r)
        ELSE [r EXCEPT !.parr[q.ptr.a].elems[q.ptr.i].IsDeleted = FALSE]

\* case 'B': parseBlockUnblockIPAddr(line[1:])
ReplayBlock(r, line) ==
    LET q == parseBlockUnblockIPAddr(From(line, 1))
    IN  IF ~q.ok THEN Panic(r)
        ELSE [r EXCEPT !.blockedIPAddresses =
                           markIPBlockedOrUnblocked(@, q.ipAddr, q.blocked)]

\* one turn of the loop body after the line is cut; c := line[0] panics
\* on an empty line
ReplayLine(r, line) ==
    IF line = <<>> THEN Panic(r)
    ELSE CASE line[1] = "T" -> ReplayTopic(r, line)
           [] line[1] = "P" -> ReplayPost(r, line)
           [] line[1] = "D" -> ReplayDelete(r, line)
           [] line[1] = "U" -> ReplayUndelete(r, line)
           [] line[1] = "B" -> ReplayBlock(r, line)
           [] OTHER -> Panic(r)

\* the lines the loop of readExistingData cuts from the file content: a
\* line ends before each newline, and the text after the last newline, if
\* any, is a line.  (Computed from the positions of the newlines, not by a
\* recursion over the characters of the file.)
ReadLines(d) ==
    LET ends == {i \in 1..Len(d) : d[i] = NL}
                \cup (IF d # <<>> /\ Last(d) # NL THEN {Len(d) + 1} ELSE {})
        end(k) == CHOOSE i \in ends : Cardinality({j \in ends : j < i}) = k - 1
        start(k) == IF k = 1 THEN 1 ELSE end(k - 1) + 1
    IN  [k \in 1..Cardinality(ends) |-> SubSeq(d, start(k), end(k) - 1)]

RECURSIVE ReplayLines(_, _)
ReplayLines(r, lines) ==
    IF lines = <<>> \/ r.panicked THEN r
    ELSE ReplayLines(ReplayLine(r, Head(lines)), Tail(lines))

\* the replay state after readExistingData on file content d
readExistingData(d) ==
    ReplayLines([topics |-> EmptySlice, posts |-> <<>>,
                 blockedIPAddresses |-> <<>>, tarr |-> <<>>, parr |-> <<>>,
                 map |-> <<>>, panicked |-> FALSE],
                ReadLines(d))

\* the world of a replay state
WorldOf(r) == [topics |-> r.topics, posts |-> r.posts,
               blockedIPAddresses |-> r.blockedIPAddresses,
               tarr |-> r.tarr, parr |-> r.parr]

(***************************************************************************)
(* The state of the program.                                               *)
(***************************************************************************)
VARIABLES
    topics,              \* store.topics: a slice header over tarr
    posts,               \* store.posts: pointers to Post
    blockedIPAddresses,  \* store.blockedIPAddresses
    tarr,                \* heap: arrays of Topic
    parr,                \* heap: arrays of Post
    dataFile,            \* content of <dataDir>/forum/<forumName>.txt
    blobs,               \* digests that have a file under <dataDir>/blobs
    err,                 \* error of the last operation, "nil" for none
    panicked,            \* the process died in a panic
    replayed,            \* NewStore found the file and ran readExistingData
    mutex,               \* store.Mutex: "" when free, else the goroutine holding it
    pc,                  \* per goroutine: where it is in its call
    call,                \* per goroutine: the call it is in and the text it appended
    applied,             \* the appended texts, in the order their index updates ran
    argText,             \* a caller's text: the name typed, or the address of the request
    argTwitter,          \* a caller's flag: the user is logged in via twitter
    retText,             \* what the last function applied to the text returned
    codecPc              \* which function the caller applied last

vars == <<topics, posts, blockedIPAddresses, tarr, parr, dataFile, blobs,
          err, panicked, replayed, mutex, pc, call, applied,
          argText, argTwitter, retText, codecPc>>

conc == <<mutex, pc, call, applied>>

codec == <<argText, argTwitter, retText, codecPc>>

index == <<topics, posts, blockedIPAddresses, tarr, parr>>

\* the world of the current state
Cur == [topics |-> topics, posts |-> posts,
        blockedIPAddresses |-> blockedIPAddresses,
        tarr |-> tarr, parr |-> parr]

SetWorld(w) ==
    /\ topics' = w.topics
    /\ posts' = w.posts
    /\ blockedIPAddresses' = w.blockedIPAddresses
    /\ tarr' = w.tarr
    /\ parr' = w.parr

(***************************************************************************)
(* Inputs of the operations.                                               *)
(***************************************************************************)
\* subject, message, user name and IP address of a new post
PostInputs ==
    { [subject |-> <<"H", "|", "i">>, msg |-> "World",
       user |-> <<"a", "|">>, ipAddr |-> <<"1", ".", "2", ".", "3", ".", "4">>],
      [subject |-> <<"Y", NL, "o">>, msg |-> "World",
       user |-> <<"b">>, ipAddr |-> <<":", "|", "1">>] }

\* arguments of BlockIP, UnblockIP and IsIPBlocked
BlockInputs ==
    { <<"4", "b", "0", "a", "f", "6", "6", "e">>,
      <<"1", ".", "2", ".", "3", ".", "4">> }

\* time.Now().Unix()
Times == {7}

\* the goroutines that call the store concurrently
Procs == {"g1", "g2"}

\* the arguments of a call, and a call in progress: its arguments, the
\* inputs of a new post, the time, and the text it appended
NoArgs == [op |-> "", topicID |-> 0, postID |-> 0, ipAddr |-> <<>>]
NoCall == [c |-> NoArgs, in |-> <<>>, now |-> 0, out |-> <<>>]

\* how the I/O of one call goes: "none" fails nothing, "blob" fails
\* writeMessageAsSha1, "append" fails appendString
PostFails == {"none", "blob", "append"}
AppendFails == {"none", "append"}

TopicIDs == 1..MaxTopics
PostIDs == 0..MaxPosts

\* the number of appendString calls that wrote file content d: each call
\* writes one P, D, U or B line (a T line comes with its P line)
NumWrites(d) ==
    Cardinality({i \in 1..Len(d) :
        d[i] \in {"P", "D", "U", "B"} /\ (i = 1 \/ d[i - 1] = NL)})

(***************************************************************************)
(* Reads.                                                                  *)
(***************************************************************************)
\* pointer to the topic in store.topics, Nil when there is none
topicByIDUnlocked(w, id) ==
    LET ts == StoreTopics(w)
    IN  IF \E idx \in 1..Len(ts) : ts[idx].Id = id
        THEN [a |-> w.topics.arr,
              i |-> CHOOSE idx \in 1..Len(ts) :
                        ts[idx].Id = id /\ \A j \in 1..(idx - 1) : ts[j].Id # id]
        ELSE Nil

\* [err, panic, ptr]: &topic.Posts[postID-1] panics for postID < 1
findPost(w, topicID, postID) ==
    LET topic == topicByIDUnlocked(w, topicID)
    IN  IF topic = Nil
        THEN [err |-> "didn't find a topic with this id", panic |-> FALSE, ptr |-> Nil]
        ELSE IF postID > TopicAt(w, topic).Posts.len
        THEN [err |-> "didn't find post with this id", panic |-> FALSE, ptr |-> Nil]
        ELSE IF postID < 1
        THEN [err |-> "nil", panic |-> TRUE, ptr |-> Nil]
        ELSE [err |-> "nil", panic |-> FALSE,
              ptr |-> [a |-> TopicAt(w, topic).Posts.arr, i |-> postID]]

RECURSIVE SumLen(_)
SumLen(ts) == IF ts = <<>> THEN 0 ELSE Head(ts).Posts.len + SumLen(Tail(ts))

PostsCount(w) == SumLen(StoreTopics(w))
TopicsCount(w) == w.topics.len
IsIPBlocked(w, ipAddrInternal) ==
    stringIndex(w.blockedIPAddresses, ipAddrInternal) # -1
GetBlockedIpsCount(w) == Len(w.blockedIPAddresses)

\* the loop of GetTopics from position i with n results still wanted:
\* [res, i], res the pointers collected
RECURSIVE GetTopicsLoop(_, _, _, _)
GetTopicsLoop(w, n, i, res) ==
    LET idx == w.topics.len - 1 - i
    IN  IF n > 0 /\ idx >= 0
        THEN GetTopicsLoop(w, n - 1, i + 1,
                           Append(res, [a |-> w.topics.arr, i |-> idx + 1]))
        ELSE [res |-> res, i |-> i]

\* [res, newFrom]
GetTopics(w, nMax, from) ==
    LET l == GetTopicsLoop(w, nMax, from, <<>>)
    IN  [res |-> l.res,
         newFrom |-> IF w.topics.len - 1 - l.i <= 0 THEN 0 ELSE l.i]

\* the pointers GetRecentPosts returns: the newest entries of store.posts,
\* newest first
GetRecentPosts(w, max) ==
    LET n == IF max > Len(w.posts) THEN Len(w.posts) ELSE max
    IN  [i \in 1..n |-> w.posts[Len(w.posts) - i + 1]]

\* the loop of GetPostsByUserInternal and GetPostsByIPInternal from index i
\* (from 1) down, on the field they compare: [res, total]
RECURSIVE GetPostsByLoop(_, _, _, _, _, _, _)
GetPostsByLoop(w, field, key, max, i, res, total) ==
    IF i < 1 THEN [res |-> res, total |-> total]
    ELSE IF PostAt(w, w.posts[i])[field] = key
    THEN GetPostsByLoop(w, field, key, max, i - 1,
                        IF total < max THEN Append(res, w.posts[i]) ELSE res,
                        total + 1)
    ELSE GetPostsByLoop(w, field, key, max, i - 1, res, total)

GetPostsByUserInternal(w, userNameInternal, max) ==
    GetPostsByLoop(w, "UserNameInternal", userNameInternal, max,
                   Len(w.posts), <<>>, 0)

GetPostsByIPInternal(w, ipAddrInternal, max) ==
    GetPostsByLoop(w, "IpAddrInternal", ipAddrInternal, max,
                   Len(w.posts), <<>>, 0)

(***************************************************************************)
(* The mutation operations as functions of the world.  Each gives          *)
(* [w, out, blob, err, panic]: the world after the call, the text          *)
(* appended to the data file, the digests written to the blob store, the   *)
(* error ("nil" for none) and whether the call panicked.                   *)
(***************************************************************************)
Result(w, out, blob, e) ==
    [w |-> w, out |-> out, blob |-> blob, err |-> e, panic |-> FALSE]

addNewPostIgnoringBlobErr(w, in, topic, newTopic, now, fail) ==
    LET t == TopicAt(w, topic)
        sha1 == Sha1OfBytes(in.msg)
        p == [Id |-> t.Posts.len + 1,
              CreatedOn |-> now,
              MessageSha1 |-> sha1,
              UserNameInternal |-> remSep(in.user),
              IpAddrInternal |-> remSep(ipAddrToInternal(in.ipAddr)),
              IsDeleted |-> FALSE,
              Topic |-> topic]
        topicStr == IF newTopic
                    THEN <<"T">> \o Itoa(t.Id) \o <<SEP>> \o t.Subject \o <<NL>>
                    ELSE <<>>
        s1 == Itoa(p.CreatedOn)
        s2 == Front(Base64Encode(p.MessageSha1))
        postStr == <<"P">> \o Itoa(t.Id) \o <<SEP>> \o Itoa(p.Id) \o <<SEP>> \o s1
                   \o <<SEP>> \o s2 \o <<SEP>> \o p.IpAddrInternal
                   \o <<SEP>> \o p.UserNameInternal \o <<NL>>
        \* topic.Posts = append(topic.Posts, *p)
        ap == SliceAppend(w.parr, t.Posts, p)
        tarr1 == [w.tarr EXCEPT ![topic.a].elems[topic.i].Posts = ap.hdr]
        \* store.topics = append(store.topics, *topic)
        at == IF newTopic THEN SliceAppend(tarr1, w.topics, TopicAt([w EXCEPT !.tarr = tarr1], topic))
              ELSE [arrs |-> tarr1, hdr |-> w.topics]
    IN  IF fail = "append" THEN Result(w, <<>>, {sha1}, "io")
        ELSE Result([w EXCEPT !.parr = ap.arrs, !.tarr = at.arrs, !.topics = at.hdr,
                              !.posts = Append(@, [a |-> ap.hdr.arr, i |-> ap.hdr.len])],
                    topicStr \o postStr,
                    IF fail = "blob" THEN {} ELSE {sha1}, "nil")

addNewPost(w, in, topic, newTopic, now, fail) ==
    LET t == TopicAt(w, topic)
        sha1 == Sha1OfBytes(in.msg)
        p == [Id |-> t.Posts.len + 1,
              CreatedOn |-> now,
              MessageSha1 |-> sha1,
              UserNameInternal |-> remSep(in.user),
              IpAddrInternal |-> remSep(ipAddrToInternal(in.ipAddr)),
              IsDeleted |-> FALSE,
              Topic |-> topic]
        topicStr == IF newTopic
                    THEN <<"T">> \o Itoa(t.Id) \o <<SEP>> \o t.Subject \o <<NL>>
                    ELSE <<>>
        s1 == Itoa(p.CreatedOn)
        s2 == Front(Base64Encode(p.MessageSha1))
        postStr == <<"P">> \o Itoa(t.Id) \o <<SEP>> \o Itoa(p.Id) \o <<SEP>> \o s1
                   \o <<SEP>> \o s2 \o <<SEP>> \o p.IpAddrInternal
                   \o <<SEP>> \o p.UserNameInternal \o <<NL>>
        \* topic.Posts = append(topic.Posts, *p)
        ap == SliceAppend(w.parr, t.Posts, p)
        tarr1 == [w.tarr EXCEPT ![topic.a].elems[topic.i].Posts = ap.hdr]
        \* store.topics = append(store.topics, *topic)
        at == IF newTopic THEN SliceAppend(tarr1, w.topics, TopicAt([w EXCEPT !.tarr = tarr1], topic))
              ELSE [arrs |-> tarr1, hdr |-> w.topics]
    IN  IF fail = "blob" THEN Result(w, <<>>, {}, "io")
        ELSE IF fail = "append" THEN Result(w, <<>>, {sha1}, "io")
        ELSE Result([w EXCEPT !.parr = ap.arrs, !.tarr = at.arrs, !.topics = at.hdr,
                              !.posts = Append(@, [a |-> ap.hdr.arr, i |-> ap.hdr.len])],
                    topicStr \o postStr, {sha1}, "nil")

\* the garbage collector frees the Topic a failed CreateNewPost allocated
\* when nothing points to it
Release(w, ptr) ==
    IF /\ ptr.a = Len(w.tarr)
       /\ w.topics.arr # ptr.a
       /\ \A a \in 1..Len(w.parr) : \A i \in 1..Len(w.parr[a].elems) :
              w.parr[a].elems[i].Topic # ptr
    THEN [w EXCEPT !.tarr = Front(@)]
    ELSE w

NewTopicIdAlwaysOne(w) == 1

\* topic.Id: 1, or the id of the last topic + 1
NewTopicId(w) ==
    LET ts == StoreTopics(w)
    IN  IF Len(ts) > 0 THEN Last(ts).Id + 1 ELSE 1

CreateNewPost(w, in, now, fail) ==
    LET local == [Id |-> NewTopicId(w),
                  Subject |-> remSep(in.subject),
                  Posts |-> EmptySlice]
        topic == [a |-> Len(w.tarr) + 1, i |-> 1]
        r == addNewPost([w EXCEPT !.tarr = Append(@, [cap |-> 1, elems |-> <<local>>])],
                        in, topic, TRUE, now, fail)
    IN  IF r.err = "nil" THEN r ELSE [r EXCEPT !.w = Release(r.w, topic)]

AddPostToTopic(w, topicID, in, now, fail) ==
    LET topic == topicByIDUnlocked(w, topicID)
    IN  IF topic = Nil THEN Result(w, <<>>, {}, "invalid topicID")
        ELSE addNewPost(w, in, topic, FALSE, now, fail)

DeletePostNoGuard(w, topicID, postID, fail) ==
    LET f == findPost(w, topicID, postID)
        str == <<"D">> \o Itoa(topicID) \o <<SEP>> \o Itoa(postID) \o <<NL>>
    IN  IF f.panic THEN [Result(w, <<>>, {}, "nil") EXCEPT !.panic = TRUE]
        ELSE IF f.err # "nil" THEN Result(w, <<>>, {}, f.err)
        ELSE IF fail = "append" THEN Result(w, <<>>, {}, "io")
        ELSE Result([w EXCEPT !.parr[f.ptr.a].elems[f.ptr.i].IsDeleted = TRUE],
                    str, {}, "nil")

DeletePost(w, topicID, postID, fail) ==
    LET f == findPost(w, topicID, postID)
        str == <<"D">> \o Itoa(topicID) \o <<SEP>> \o Itoa(postID) \o <<NL>>
    IN  IF f.panic THEN [Result(w, <<>>, {}, "nil") EXCEPT !.panic = TRUE]
        ELSE IF f.err # "nil" THEN Result(w, <<>>, {}, f.err)
        ELSE IF PostAt(w, f.ptr).IsDeleted
        THEN Result(w, <<>>, {}, "post already deleted")
        ELSE IF fail = "append" THEN Result(w, <<>>, {}, "io")
        ELSE Result([w EXCEPT !.parr[f.ptr.a].elems[f.ptr.i].IsDeleted = TRUE],
                    str, {}, "nil")

UndeletePost(w, topicID, postID, fail) ==
    LET f == findPost(w, topicID, postID)
        str == <<"U">> \o Itoa(topicID) \o <<SEP>> \o Itoa(postID) \o <<NL>>
    IN  IF f.panic THEN [Result(w, <<>>, {}, "nil") EXCEPT !.panic = TRUE]
        ELSE IF f.err # "nil" THEN Result(w, <<>>, {}, f.err)
        ELSE IF ~PostAt(w, f.ptr).IsDeleted
        THEN Result(w, <<>>, {}, "post already not deleted")
        ELSE IF fail = "append" THEN Result(w, <<>>, {}, "io")
        ELSE Result([w EXCEPT !.parr[f.ptr.a].elems[f.ptr.i].IsDeleted = FALSE],
                    str, {}, "nil")

blockIPIgnoringErr(w, ipAddr, fail) ==
    LET s == <<"B">> \o ipAddrToInternal(ipAddr) \o <<SEP, "1", NL>>
        w1 == [w EXCEPT !.blockedIPAddresses =
                            markIPBlockedOrUnblocked(@, ipAddr, TRUE)]
    IN  IF fail = "append" THEN Result(w1, <<>>, {}, "io")
        ELSE Result(w1, s, {}, "nil")

\* BlockIP and UnblockIP return nothing; err is what appendString gave
blockIP(w, ipAddr, fail) ==
    LET s == <<"B">> \o ipAddrToInternal(ipAddr) \o <<SEP, "1", NL>>
    IN  IF fail = "append" THEN Result(w, <<>>, {}, "io")
        ELSE Result([w EXCEPT !.blockedIPAddresses =
                                  markIPBlockedOrUnblocked(@, ipAddr, TRUE)],
                    s, {}, "nil")

unblockIP(w, ipAddr, fail) ==
    LET s == <<"B">> \o ipAddrToInternal(ipAddr) \o <<SEP, "0", NL>>
    IN  IF fail = "append" THEN Result(w, <<>>, {}, "io")
        ELSE Result([w EXCEPT !.blockedIPAddresses =
                                  markIPBlockedOrUnblocked(@, ipAddr, FALSE)],
                    s, {}, "nil")

BlockIP(w, ipAddrInternal, fail) == blockIP(w, ipAddrInternal, fail)
UnblockIP(w, ipAddrInternal, fail) == unblockIP(w, ipAddrInternal, fail)

(***************************************************************************)
(* The state machine: one caller at a time (every public operation runs    *)
(* under store.Lock()), each action one whole call.                        *)
(***************************************************************************)
StoreInit ==
    /\ topics = EmptyWorld.topics
    /\ posts = EmptyWorld.posts
    /\ blockedIPAddresses = EmptyWorld.blockedIPAddresses
    /\ tarr = EmptyWorld.tarr
    /\ parr = EmptyWorld.parr
    /\ dataFile = <<>>
    /\ blobs = {}
    /\ err = "nil"
    /\ panicked = FALSE
    /\ replayed = FALSE
    /\ mutex = ""
    /\ pc = [p \in Procs |-> "idle"]
    /\ call = [p \in Procs |-> NoCall]
    /\ applied = <<>>

\* no caller outside the store is modelled
Init ==
    /\ StoreInit
    /\ argText = <<>>
    /\ argTwitter = FALSE
    /\ retText = <<>>
    /\ codecPc = "idle"

\* the effect of a call with result r; a call starts once the caller has
\* taken the error of the call before (TakeError)
Apply(r) ==
    /\ ~panicked
    /\ err = "nil"
    /\ NumWrites(dataFile \o r.out) <= MaxWrites
    /\ SetWorld(r.w)
    /\ dataFile' = dataFile \o r.out
    /\ blobs' = blobs \cup r.blob
    /\ err' = r.err
    /\ panicked' = r.panic
    /\ UNCHANGED <<replayed, conc, codec>>

CallCreateNewPost(in, now, fail) ==
    /\ fail = "none" => topics.len < MaxTopics
    /\ Apply(CreateNewPost(Cur, in, now, fail))

CallAddPostToTopic(topicID, in, now, fail) ==
    /\ LET topic == topicByIDUnlocked(Cur, topicID)
       IN  (fail = "none" /\ topic # Nil) => TopicAt(Cur, topic).Posts.len < MaxPosts
    /\ Apply(AddPostToTopic(Cur, topicID, in, now, fail))

CallDeletePost(topicID, postID, fail) ==
    /\ ~panicked
    /\ Apply(DeletePost(Cur, topicID, postID, fail))

CallUndeletePost(topicID, postID, fail) ==
    /\ ~panicked
    /\ Apply(UndeletePost(Cur, topicID, postID, fail))

CallBlockIP(ipAddr, fail) ==
    /\ ~panicked
    /\ Apply(BlockIP(Cur, ipAddr, fail))

CallUnblockIP(ipAddr, fail) ==
    /\ ~panicked
    /\ Apply(UnblockIP(Cur, ipAddr, fail))

\* the process ends and NewStore runs again on the existing data file
Restart ==
    /\ ~panicked
    /\ err = "nil"
    /\ LET r == readExistingData(dataFile)
       IN  /\ SetWorld(IF r.panicked THEN Cur ELSE WorldOf(r))
           /\ panicked' = r.panicked
    /\ err' = "nil"
    /\ replayed' = TRUE
    /\ UNCHANGED <<dataFile, blobs, conc, codec>>

\* the caller takes the error the last call returned; the store is as the
\* failed call left it
TakeError ==
    /\ ~panicked
    /\ err # "nil"
    /\ err' = "nil"
    /\ UNCHANGED <<index, dataFile, blobs, panicked, replayed, conc, codec>>

Next ==
    \/ \E in \in PostInputs, now \in Times, fail \in PostFails :
           CallCreateNewPost(in, now, fail)
    \/ \E topicID \in TopicIDs, in \in PostInputs, now \in Times, fail \in PostFails :
           CallAddPostToTopic(topicID, in, now, fail)
    \/ \E topicID \in TopicIDs, postID \in PostIDs, fail \in AppendFails :
           CallDeletePost(topicID, postID, fail)
    \/ \E topicID \in TopicIDs, postID \in PostIDs, fail \in AppendFails :
           CallUndeletePost(topicID, postID, fail)
    \/ \E ipAddr \in BlockInputs, fail \in AppendFails : CallBlockIP(ipAddr, fail)
    \/ \E ipAddr \in BlockInputs, fail \in AppendFails : CallUnblockIP(ipAddr, fail)
    \/ Restart
    \/ TakeError

Spec == Init /\ [][Next]_vars

(***************************************************************************)
(* Concurrent callers.  Every public operation is                          *)
(*     store.Lock(); defer store.Unlock(); ...body...                      *)
(* A goroutine's call is split into the steps between which another        *)
(* goroutine could run: waiting for the mutex, taking it, the body up to   *)
(* and including appendString, the update of the index, the unlock.        *)
(***************************************************************************)
\* new posts here come from the inputs whose subject holds no newline
ConcInputs ==
    {in \in PostInputs : \A i \in 1..Len(in.subject) : in.subject[i] # NL}

Calls ==
    {[NoArgs EXCEPT !.op = "CreateNewPost"], [NoArgs EXCEPT !.op = "TopicsCount"]}
    \cup {[NoArgs EXCEPT !.op = "AddPostToTopic", !.topicID = t] : t \in TopicIDs}
    \cup {[NoArgs EXCEPT !.op = o, !.topicID = t, !.postID = q] :
              o \in {"DeletePost", "UndeletePost"}, t \in TopicIDs, q \in 1..MaxPosts}
    \cup {[NoArgs EXCEPT !.op = o, !.ipAddr = x] :
              o \in {"BlockIP", "UnblockIP"}, x \in BlockInputs}

\* the body of call c on world w
RunCall(w, c, in, now, fail) ==
    CASE c.op = "CreateNewPost" -> CreateNewPost(w, in, now, fail)
      [] c.op = "AddPostToTopic" -> AddPostToTopic(w, c.topicID, in, now, fail)
      [] c.op = "DeletePost" -> DeletePost(w, c.topicID, c.postID, fail)
      [] c.op = "UndeletePost" -> UndeletePost(w, c.topicID, c.postID, fail)
      [] c.op = "BlockIP" -> BlockIP(w, c.ipAddr, fail)
      [] c.op = "UnblockIP" -> UnblockIP(w, c.ipAddr, fail)
      [] OTHER -> Result(w, <<>>, {}, "nil")

MutexIgnored == TRUE

\* sync.Mutex.Lock returns only when the mutex is free
MutexFree == mutex = ""

\* a goroutine calls a public operation and blocks in store.Lock()
Start(p) ==
    /\ ~panicked
    /\ pc[p] = "idle"
    /\ pc' = [pc EXCEPT ![p] = "waiting"]
    /\ UNCHANGED <<index, dataFile, blobs, err, panicked, replayed, mutex, call, applied, codec>>

\* store.Lock() returns
Lock(p) ==
    /\ ~panicked
    /\ pc[p] = "waiting"
    /\ MutexFree
    /\ mutex' = p
    /\ pc' = [pc EXCEPT ![p] = "locked"]
    /\ UNCHANGED <<index, dataFile, blobs, err, panicked, replayed, call, applied, codec>>

\* the body up to the return of appendString: the checks, the blob write
\* and the append; a call that appended goes on to update the index,
\* every other call returns
Write(p, c, in, now, fail) ==
    /\ ~panicked
    /\ pc[p] = "locked"
    /\ LET r == RunCall(Cur, c, in, now, fail)
       IN  /\ NumWrites(dataFile \o r.out) <= MaxWrites
           /\ (c.op = "CreateNewPost" /\ r.out # <<>>) => topics.len < MaxTopics
           /\ (c.op = "AddPostToTopic" /\ r.out # <<>>) =>
                  TopicAt(Cur, topicByIDUnlocked(Cur, c.topicID)).Posts.len < MaxPosts
           /\ dataFile' = dataFile \o r.out
           /\ blobs' = blobs \cup r.blob
           /\ panicked' = r.panic
           /\ IF r.out # <<>>
              THEN /\ pc' = [pc EXCEPT ![p] = "written"]
                   /\ call' = [call EXCEPT ![p] =
                                  [c |-> c, in |-> in, now |-> now, out |-> r.out]]
              ELSE /\ pc' = [pc EXCEPT ![p] = "unlock"]
                   /\ call' = call
    /\ UNCHANGED <<index, err, replayed, mutex, applied, codec>>

\* the statements after appendString: the update of the index
Update(p) ==
    /\ ~panicked
    /\ pc[p] = "written"
    /\ SetWorld(RunCall(Cur, call[p].c, call[p].in, call[p].now, "none").w)
    /\ applied' = applied \o call[p].out
    /\ pc' = [pc EXCEPT ![p] = "unlock"]
    /\ call' = [call EXCEPT ![p] = NoCall]
    /\ UNCHANGED <<dataFile, blobs, err, panicked, replayed, mutex, codec>>

\* the deferred store.Unlock()
Unlock(p) ==
    /\ ~panicked
    /\ pc[p] = "unlock"
    /\ mutex' = ""
    /\ pc' = [pc EXCEPT ![p] = "idle"]
    /\ UNCHANGED <<index, dataFile, blobs, err, panicked, replayed, call, applied, codec>>

NextConc ==
    \/ \E p \in Procs : Start(p)
    \/ \E p \in Procs : Lock(p)
    \/ \E p \in Procs, c \in Calls, in \in ConcInputs, now \in Times,
          fail \in PostFails : Write(p, c, in, now, fail)
    \/ \E p \in Procs : Update(p)
    \/ \E p \in Procs : Unlock(p)

SpecConc == Init /\ [][NextConc]_vars

(***************************************************************************)
(* A caller that makes the author token of a typed name with               *)
(* MakeInternalUserName and posts under it.                                *)
(***************************************************************************)
NameChars == {"t", ":", "|", "k"}

\* the names a user can type: every text of up to MaxName characters
Names == UNION {[1..n -> NameChars] : n \in 0..MaxName}

storeVars == <<index, dataFile, blobs, err, panicked, replayed>>

InitNames ==
    /\ StoreInit
    /\ argText \in Names
    /\ argTwitter \in BOOLEAN
    /\ retText = <<>>
    /\ codecPc = "typed"

CallMakeInternalUserName ==
    /\ codecPc = "typed"
    /\ retText' = MakeInternalUserName(argText, argTwitter)
    /\ codecPc' = "made"
    /\ UNCHANGED <<storeVars, conc, argText, argTwitter>>

\* the inputs of a post whose user is the token made
PostAs(in) == [in EXCEPT !.user = retText]

CallCreateNewPostAs(in, now) ==
    /\ codecPc = "made"
    /\ topics.len = 0
    /\ CallCreateNewPost(PostAs(in), now, "none")

CallAddPostToTopicAs(topicID, in, now) ==
    /\ codecPc = "made"
    /\ CallAddPostToTopic(topicID, PostAs(in), now, "none")

NextNames ==
    \/ CallMakeInternalUserName
    \/ \E in \in ConcInputs, now \in Times : CallCreateNewPostAs(in, now)
    \/ \E in \in ConcInputs, now \in Times : CallAddPostToTopicAs(1, in, now)

SpecNames == InitNames /\ [][NextNames]_vars

(***************************************************************************)
(* A caller that encodes the address of a request with ipAddrToInternal    *)
(* and reads it back with ipAddrInternalToOriginal (Post.IpAddress).       *)
(***************************************************************************)
FirstOctets == 0..255
LaterOctets == {0, 10, 255}

\* dotted IPv4 addresses a.b.c.d in decimal
DottedAddrs ==
    {DottedQuad(<<a, b, c, d>>) :
        a \in FirstOctets, b \in LaterOctets, c \in LaterOctets, d \in LaterOctets}

InitIP ==
    /\ StoreInit
    /\ argText \in DottedAddrs
    /\ argTwitter = FALSE
    /\ retText = <<>>
    /\ codecPc = "typed"

CallIpAddrToInternal ==
    /\ codecPc = "typed"
    /\ retText' = ipAddrToInternal(argText)
    /\ codecPc' = "internal"
    /\ UNCHANGED <<storeVars, conc, argText, argTwitter>>

CallIpAddrInternalToOriginal ==
    /\ codecPc = "internal"
    /\ retText' = ipAddrInternalToOriginal(retText)
    /\ codecPc' = "original"
    /\ UNCHANGED <<storeVars, conc, argText, argTwitter>>

NextIP ==
    \/ CallIpAddrToInternal
    \/ CallIpAddrInternalToOriginal

SpecIP == InitIP /\ [][NextIP]_vars

(***************************************************************************)
(* NewStore on a data file that an earlier run left.  The file grows line  *)
(* by line, each a record of the right field count, with any stored post   *)
(* id and any target of a D or U record, until NewStore reads it.  Only a  *)
(* file whose replay has not failed yet grows further.                     *)
(***************************************************************************)
LogTopicIDs == {1, 2}
LogPostIDs == {1, 2}
StoredPostIDs == {1, 3}

TLine(topicID) == <<"T">> \o Itoa(topicID) \o <<SEP, "s">>

PLine(topicID, id) ==
    <<"P">> \o Itoa(topicID) \o <<SEP>> \o Itoa(id)
    \o <<SEP, "7", SEP, "c", "L", "y", SEP, "1", "0", "2", "0", "3", "0", "4", SEP, "a">>

DelUndelLine(kind, topicID, postID) ==
    <<kind>> \o Itoa(topicID) \o <<SEP>> \o Itoa(postID)

TLines == {TLine(t) : t \in LogTopicIDs}
PLines == {PLine(t, id) : t \in LogTopicIDs, id \in StoredPostIDs}
DelUndelLines ==
    {DelUndelLine(kind, t, q) : kind \in {"D", "U"}, t \in LogTopicIDs, q \in LogPostIDs}

ExistingLines == TLines \cup PLines \cup DelUndelLines

\* the file has one more line; a topic id is used by one T record
ExistingLine(line) ==
    /\ ~replayed
    /\ Len(ReadLines(dataFile)) < MaxLines
    /\ ~readExistingData(dataFile).panicked
    /\ line \in TLines =>
           \A i \in 1..Len(ReadLines(dataFile)) : ReadLines(dataFile)[i] # line
    /\ dataFile' = dataFile \o line \o <<NL>>
    /\ UNCHANGED <<index, blobs, err, panicked, replayed, conc, codec>>

NextReplay ==
    \/ \E line \in ExistingLines : ExistingLine(line)
    \/ Restart

SpecReplay == Init /\ [][NextReplay]_vars

(***************************************************************************)
(* What a caller can observe of the index.                                 *)
(***************************************************************************)
\* the topics of store.topics in order, each with its id and, per post in
\* order, the post's id and deleted flag
TopicView(w, t) ==
    [Id |-> t.Id,
     Posts |-> [i \in 1..t.Posts.len |->
                   [Id |-> TopicPosts(w, t)[i].Id,
                    IsDeleted |-> TopicPosts(w, t)[i].IsDeleted]]]

View(w) == [k \in 1..w.topics.len |-> TopicView(w, StoreTopics(w)[k])]

\* the store NewStore would build from the data file as it is now
Replayed == readExistingData(dataFile)

\* post postID of topic topicID exists in store.topics
PostExists(w, topicID, postID) ==
    /\ topicByIDUnlocked(w, topicID) # Nil
    /\ postID \in 1..TopicAt(w, topicByIDUnlocked(w, topicID)).Posts.len

PostOf(w, topicID, postID) ==
    TopicPosts(w, TopicAt(w, topicByIDUnlocked(w, topicID)))[postID]

(***************************************************************************)
(* Claims.                                                                 *)
(***************************************************************************)

\* C1: whenever the replay of the data file written so far completes, the
\* store it builds has the same topics in the same order, each with the
\* same id, the same posts in the same order, and the same deleted flag per
\* post, as the index in memory; PostsCount and TopicsCount agree.
C1_ReplayIdempotence ==
    (~panicked /\ ~Replayed.panicked) =>
        /\ View(WorldOf(Replayed)) = View(Cur)
        /\ PostsCount(WorldOf(Replayed)) = PostsCount(Cur)
        /\ TopicsCount(WorldOf(Replayed)) = TopicsCount(Cur)

\* C2: every address x that IsIPBlocked reports blocked in memory (BlockIP(x)
\* succeeded and no UnblockIP(x) removed it) is reported blocked, for the
\* same argument x, by the store rebuilt from the data file.
C2_BlocklistSurvivesRestart ==
    \A x \in BlockInputs :
        (~panicked /\ IsIPBlocked(Cur, x)) =>
            /\ ~Replayed.panicked
            /\ IsIPBlocked(WorldOf(Replayed), x)

\* C3: in every reachable state a successful UnblockIP(x) leaves x not
\* blocked, and GetBlockedIpsCount is the number of distinct blocked
\* addresses.
C3_UnblockClearsMembership ==
    /\ \A x \in BlockInputs : ~IsIPBlocked(UnblockIP(Cur, x, "none").w, x)
    /\ GetBlockedIpsCount(Cur) =
           Cardinality({blockedIPAddresses[i] : i \in 1..Len(blockedIPAddresses)})

\* C4: in a store that started empty, the topics of store.topics have the
\* ids 1..TopicsCount in order and the posts of every topic the ids
\* 1..len(Posts) in order, whatever calls failed on the way.
C4_SequentialIds ==
    ~replayed =>
        \A k \in 1..topics.len :
            /\ StoreTopics(Cur)[k].Id = k
            /\ \A i \in 1..StoreTopics(Cur)[k].Posts.len :
                   TopicPosts(Cur, StoreTopics(Cur)[k])[i].Id = i

\* C4 witness: a store that started empty holds two topics, one of them
\* with two posts.
C4_Witness ==
    /\ ~replayed
    /\ topics.len >= 2
    /\ \E k \in 1..topics.len : StoreTopics(Cur)[k].Posts.len >= 2

\* C5: DeletePost on a post already deleted and UndeletePost on a post not
\* deleted return an error, append nothing to the data file and leave the
\* index as it is.
C5_DeleteUndeleteGuard ==
    \A topicID \in TopicIDs, postID \in PostIDs, fail \in AppendFails :
        PostExists(Cur, topicID, postID) =>
            LET r == IF PostOf(Cur, topicID, postID).IsDeleted
                     THEN DeletePost(Cur, topicID, postID, fail)
                     ELSE UndeletePost(Cur, topicID, postID, fail)
            IN  /\ r.err # "nil"
                /\ ~r.panic
                /\ r.out = <<>>
                /\ r.w = Cur
                /\ PostsCount(r.w) = PostsCount(Cur)

\* C5 witness: a DeletePost call has just been refused because the post was
\* already deleted.
C5_Witness ==
    /\ err = "post already deleted"
    /\ \E topicID \in TopicIDs, postID \in PostIDs :
           /\ PostExists(Cur, topicID, postID)
           /\ PostOf(Cur, topicID, postID).IsDeleted

\* C6: DeletePost and UndeletePost on a topic or post that does not exist
\* (post ids below 1 and beyond the topic's post count included) return an
\* error, do not panic, and leave the data file and the index as they are.
Refused(r) == ~r.panic /\ r.err # "nil" /\ r.out = <<>> /\ r.w = Cur

C6_NotFoundIsReturned ==
    \A topicID \in TopicIDs, postID \in PostIDs, fail \in AppendFails :
        ~PostExists(Cur, topicID, postID) =>
            /\ Refused(DeletePost(Cur, topicID, postID, fail))
            /\ Refused(UndeletePost(Cur, topicID, postID, fail))

\* C7: a call of any of the six mutation operations whose blob write or
\* log append fails leaves store.topics, the posts and deleted flags, the
\* global post list and the blocklist as they were, and appends nothing.
Untouched(r) == r.w = Cur /\ r.out = <<>>

C7_NoMutationOnIOFailure ==
    /\ \A in \in PostInputs, now \in Times, fail \in PostFails \ {"none"} :
           /\ Untouched(CreateNewPost(Cur, in, now, fail))
           /\ \A topicID \in TopicIDs :
                  Untouched(AddPostToTopic(Cur, topicID, in, now, fail))
    /\ \A fail \in AppendFails \ {"none"} :
           /\ \A topicID \in TopicIDs, postID \in PostIDs :
                  /\ Untouched(DeletePost(Cur, topicID, postID, fail))
                  /\ Untouched(UndeletePost(Cur, topicID, postID, fail))
           /\ \A ipAddr \in BlockInputs :
                  /\ Untouched(BlockIP(Cur, ipAddr, fail))
                  /\ Untouched(UnblockIP(Cur, ipAddr, fail))

\* C7 witness: a call on a store that holds a topic and a blocked address
\* has just failed in its I/O.
C7_Witness ==
    /\ err = "io"
    /\ topics.len >= 1
    /\ blockedIPAddresses # <<>>

\* the ids of the topics GetTopics(nMax, from) returns, in order
PageIds(w, nMax, from) ==
    LET res == GetTopics(w, nMax, from).res
    IN  [k \in 1..Len(res) |-> TopicAt(w, res[k]).Id]

\* the ids of at most nMax topics from position from on, most recently
\* created first
ExpectedIds(w, nMax, from) ==
    LET n == w.topics.len
        cnt == IF n - from < 0 THEN 0
               ELSE IF n - from < nMax THEN n - from ELSE nMax
    IN  [k \in 1..cnt |-> StoreTopics(w)[n - from - k + 1].Id]

\* C8: GetTopics(m, from) returns at most m topics, most recently created
\* first from position from, and while older topics remain the returned
\* offset makes the next call return exactly the next older topics.
C8_Pagination ==
    ~panicked =>
        \A m \in 1..MaxPage, from \in 0..topics.len :
            LET page == PageIds(Cur, m, from)
                newFrom == GetTopics(Cur, m, from).newFrom
            IN  /\ Len(page) <= m
                /\ page = ExpectedIds(Cur, m, from)
                /\ from + Len(page) < topics.len =>
                       PageIds(Cur, m, newFrom) = ExpectedIds(Cur, m, from + Len(page))

\* fields of a record line after its kind character
FieldCount(line) == Len(Split(From(line, 1), SEP))

WellFormedLine(line) ==
    /\ line # <<>>
    /\ line[1] \in {"T", "P", "D", "U", "B"}
    /\ FieldCount(line) = IF line[1] = "P" THEN 6 ELSE 2

\* C10: every line of the data file is one record with the field count of
\* its kind (T 2, P 6, D and U 2, B 2).
C10_LogReparsable ==
    \A i \in 1..Len(ReadLines(dataFile)) : WellFormedLine(ReadLines(dataFile)[i])

IsPrefix(a, b) == Len(a) <= Len(b) /\ SubSeq(b, 1, Len(a)) = a

InLockedSection(p) == pc[p] \in {"locked", "written", "unlock"}

\* C9: at most one goroutine is between its Lock and its Unlock; the
\* texts whose index updates have run are, in that order, a prefix of the
\* data file, and all of it unless a call has appended and not yet
\* updated the index; every T line is directly followed by the P line of
\* the same topic.
C9_TotalOrder ==
    /\ Cardinality({p \in Procs : InLockedSection(p)}) <= 1
    /\ IsPrefix(applied, dataFile)
    /\ (\A p \in Procs : pc[p] # "written") => applied = dataFile
    /\ LET lines == ReadLines(dataFile)
       IN  \A i \in 1..Len(lines) :
               lines[i][1] = "T" =>
                   /\ i < Len(lines)
                   /\ lines[i + 1][1] = "P"
                   /\ Split(From(lines[i + 1], 1), SEP)[1] =
                          Split(From(lines[i], 1), SEP)[1]

\* C9 witness: after two calls have completed, a goroutine has appended
\* the T and P lines of a new topic and not yet updated the index, while
\* the other goroutine waits for the mutex.
C9_Witness ==
    \E p \in Procs, q \in Procs :
        /\ pc[p] = "written"
        /\ call[p].c.op = "CreateNewPost"
        /\ pc[q] = "waiting"
        /\ NumWrites(applied) >= 2

\* the second character of an author token is ':'
HasLoginPrefix(s) == Len(s) >= 2 /\ s[2] = ":"

\* C11: for every name typed by a user who is not logged in via twitter,
\* the token MakeInternalUserName(name, false) returns has no ':' as its
\* second character and does not start with "t:", and neither has the
\* author token of any post created under it (after remSep removed '|').
C11_AntiSpoofing ==
    ~argTwitter =>
        /\ codecPc = "made" =>
               ~HasLoginPrefix(retText) /\ ~HasPrefix(retText, <<"t", ":">>)
        /\ \A i \in 1..Len(posts) :
               /\ ~HasLoginPrefix(PostAt(Cur, posts[i]).UserNameInternal)
               /\ ~IsTwitterUser(PostAt(Cur, posts[i]))

\* C12: for every dotted IPv4 address a.b.c.d with octets in 0..255,
\* ipAddrInternalToOriginal(ipAddrToInternal(a.b.c.d)) is a.b.c.d, for the
\* 8-character and for the 7-character internal form.
C12_IpRoundTrip ==
    /\ codecPc = "internal" => Len(retText) \in {7, 8}
    /\ codecPc = "original" => retText = argText

\* C12 witness: an address whose internal form has 7 characters has been
\* encoded and decoded.
C12_Witness ==
    /\ codecPc = "original"
    /\ Len(ipAddrToInternal(argText)) = 7
    /\ retText = argText

\* the lines of the data file that are P records
PRecords ==
    SelectSeq(ReadLines(dataFile),
              LAMBDA line : line # <<>> /\ line[1] = "P" /\ FieldCount(line) = 6)

\* the digest a P record names
RecordSha1(line) == Base64Decode(Split(From(line, 1), SEP)[4] \o <<"=">>).val

\* every post of the topics and of the global list, and every P record,
\* has its blob
BlobsPresent ==
    /\ \A k \in 1..topics.len : \A i \in 1..StoreTopics(Cur)[k].Posts.len :
           TopicPosts(Cur, StoreTopics(Cur)[k])[i].MessageSha1 \in blobs
    /\ \A i \in 1..Len(posts) : PostAt(Cur, posts[i]).MessageSha1 \in blobs
    /\ LET recs == PRecords
       IN  \A i \in 1..Len(recs) : RecordSha1(recs[i]) \in blobs

\* C13: in every reachable state, those after a failed blob write or a
\* failed append included, every P record of the data file and every post
\* of the index has a blob under its digest; and no step removes a blob.
C13_BlobBeforeRecord ==
    /\ [](~panicked => BlobsPresent)
    /\ [][blobs \subseteq blobs']_vars

\* C13 witness: a call has just failed in its I/O in a store that holds
\* two posts, one of them deleted, and their P records.
C13_Witness ==
    /\ err = "io"
    /\ Len(PRecords) >= 2
    /\ \E i \in 1..Len(posts) : PostAt(Cur, posts[i]).IsDeleted

\* line i of lines is the P record of the first post of the topic whose
\* id is the text id
IsFirstPostOf(lines, i, id) ==
    /\ i <= Len(lines)
    /\ lines[i] # <<>>
    /\ lines[i][1] = "P"
    /\ FieldCount(lines[i]) = 6
    /\ Split(From(lines[i], 1), SEP)[1] = id
    /\ Split(From(lines[i], 1), SEP)[2] = <<"1">>

\* C14: in a store that started empty, whatever calls failed on the way,
\* every topic of store.topics has at least one post, and every line of
\* the data file that is a T record is directly followed by the P record
\* of post 1 of the same topic.
C14_NoEmptyTopic ==
    (~replayed /\ ~panicked) =>
        /\ \A k \in 1..topics.len : StoreTopics(Cur)[k].Posts.len >= 1
        /\ LET lines == ReadLines(dataFile)
           IN  \A i \in 1..Len(lines) :
                   (lines[i] # <<>> /\ lines[i][1] = "T") =>
                       IsFirstPostOf(lines, i + 1, Split(From(lines[i], 1), SEP)[1])

\* the id of the topic a post points to
TopicIdOf(w, p) == TopicAt(w, p.Topic).Id

\* C15: every entry of the global post list, as GetRecentPosts returns it,
\* is the post with the same topic id and post id in that topic's Posts,
\* with the same deleted flag; so after a successful DeletePost or
\* UndeletePost the entry shows the new flag.
C15_GlobalListMirrorsTopics ==
    ~panicked =>
        \A i \in 1..Len(posts) :
            LET p == PostAt(Cur, GetRecentPosts(Cur, Len(posts))[i])
            IN  /\ PostExists(Cur, TopicIdOf(Cur, p), p.Id)
                /\ PostOf(Cur, TopicIdOf(Cur, p), p.Id) = p

\* C16: for every post p of a topic t of store.topics, p.Topic is a topic
\* with the id of t whose Posts has the length and the content of t.Posts.
C16_PostBackReference ==
    ~panicked =>
        \A k \in 1..topics.len :
            LET t == StoreTopics(Cur)[k]
            IN  \A i \in 1..t.Posts.len :
                    LET p == TopicPosts(Cur, t)[i]
                    IN  /\ TopicAt(Cur, p.Topic).Id = t.Id
                        /\ TopicPosts(Cur, TopicAt(Cur, p.Topic)) = TopicPosts(Cur, t)

\* what the data file says: the number in field k of a record line, the
\* topics that have a T record, the P records of a topic, and whether the
\* last D or U record of a post is a D
FieldNum(line, k) == Atoi(Split(From(line, 1), SEP)[k]).val

LogLinesOf(kinds) ==
    SelectSeq(ReadLines(dataFile), LAMBDA line : line # <<>> /\ line[1] \in kinds)

LogKnown(topicID) ==
    \E i \in 1..Len(LogLinesOf({"T"})) : FieldNum(LogLinesOf({"T"})[i], 1) = topicID

LogPostsOf(topicID) ==
    SelectSeq(LogLinesOf({"P"}), LAMBDA line : FieldNum(line, 1) = topicID)

LogMarksOf(topicID, postID) ==
    SelectSeq(LogLinesOf({"D", "U"}),
              LAMBDA line : FieldNum(line, 1) = topicID /\ FieldNum(line, 2) = postID)

LogDeleted(topicID, postID) ==
    /\ LogMarksOf(topicID, postID) # <<>>
    /\ Last(LogMarksOf(topicID, postID))[1] = "D"

\* C17: a P record of a known topic is replayed without failure whatever
\* post id it stores, the post gets the id (number of the topic's posts so
\* far) + 1, and after the replay of a file of well-formed records the
\* posts of every topic have the ids 1..len(Posts).
C17_ReplayToleratesIdMismatch ==
    /\ (replayed /\ ~panicked) =>
           \A k \in 1..topics.len :
               \A i \in 1..StoreTopics(Cur)[k].Posts.len :
                   TopicPosts(Cur, StoreTopics(Cur)[k])[i].Id = i
    /\ (~replayed /\ ~Replayed.panicked) =>
           \A line \in PLines :
               LogKnown(FieldNum(line, 1)) =>
                   LET r == ReplayLine(Replayed, line)
                   IN  /\ ~r.panicked
                       /\ Len(r.posts) = Len(Replayed.posts) + 1
                       /\ PostAt(r, Last(r.posts)).Id =
                              Len(LogPostsOf(FieldNum(line, 1))) + 1

\* C17 witness: NewStore has replayed without failure a file in which the
\* second P record of a topic stores an id other than 2.
C17_Witness ==
    /\ replayed
    /\ ~panicked
    /\ \E t \in LogTopicIDs :
           /\ Len(LogPostsOf(t)) >= 2
           /\ FieldNum(LogPostsOf(t)[2], 2) # 2
           /\ PostExists(Cur, t, 2)

\* C18: in the replay, a D record of a post whose flag is set is accepted
\* and the flag stays set; a U record of a post whose flag is clear is
\* fatal; a D or U record of a topic without T record, or of a post index
\* beyond the number of the topic's posts, is fatal.
C18_ReplayDelUndelAsymmetry ==
    (~replayed /\ ~Replayed.panicked) =>
        \A line \in DelUndelLines :
            LET t == FieldNum(line, 1)
                q == FieldNum(line, 2)
                r == ReplayLine(Replayed, line)
                exists == LogKnown(t) /\ q <= Len(LogPostsOf(t))
            IN  /\ (line[1] = "D" /\ exists /\ LogDeleted(t, q)) =>
                       /\ ~r.panicked
                       /\ PostAt(r, findPostToDelUndel(r, line).ptr).IsDeleted
                /\ (line[1] = "U" /\ exists /\ ~LogDeleted(t, q)) => r.panicked
                /\ ~exists => r.panicked

\* C18 witness: NewStore has replayed without failure a file with two D
\* records of the same post and no U record between them.
C18_Witness ==
    /\ replayed
    /\ ~panicked
    /\ \E i \in 1..(Len(LogLinesOf({"D", "U"})) - 1) :
           /\ LogLinesOf({"D", "U"})[i][1] = "D"
           /\ LogLinesOf({"D", "U"})[i + 1] = LogLinesOf({"D", "U"})[i]

\* the author tokens and internal addresses asked for: those of the posts
\* the callers create, and one that no post has
QueryUsers == {remSep(in.user) : in \in PostInputs} \cup {<<"z">>}
QueryIPs == {remSep(ipAddrToInternal(in.ipAddr)) : in \in PostInputs} \cup {<<"z">>}

\* the number of posts of the topics of the store whose field is key
RECURSIVE StoreMatches(_, _, _, _)
StoreMatches(w, field, key, k) ==
    IF k < 1 THEN 0
    ELSE Cardinality({i \in 1..StoreTopics(w)[k].Posts.len :
                         TopicPosts(w, StoreTopics(w)[k])[i][field] = key})
         + StoreMatches(w, field, key, k - 1)

\* the P records, in the order of creation, whose field k is key
CreatedWith(k, key) ==
    SelectSeq(PRecords, LAMBDA line : Split(From(line, 1), SEP)[k] = key)

\* q, the answer [res, total] to a query for the posts whose field is key
\* (field k of a P record), is right: total counts the matching posts of
\* the store, res has min(max, total) entries, and entry j is the j-th
\* most recently created matching post
RightAnswer(q, field, k, key, max) ==
    LET hist == CreatedWith(k, key)
        n == IF max < q.total THEN max ELSE q.total
    IN  /\ q.total = StoreMatches(Cur, field, key, topics.len)
        /\ Len(q.res) = n
        /\ Len(hist) >= n
        /\ \A j \in 1..n :
               /\ TopicIdOf(Cur, PostAt(Cur, q.res[j])) = FieldNum(hist[Len(hist) - j + 1], 1)
               /\ PostAt(Cur, q.res[j]).Id = FieldNum(hist[Len(hist) - j + 1], 2)

\* C19: for every author token or internal address k and every max >= 0,
\* GetPostsByUserInternal(k, max) and GetPostsByIPInternal(k, max) return
\* the min(max, total) most recently created matching posts, most recent
\* first, and total, the number of the posts of the store that match.
C19_AuthorIpQueries ==
    ~panicked =>
        \A max \in 0..MaxPage :
            /\ \A key \in QueryUsers :
                   RightAnswer(GetPostsByUserInternal(Cur, key, max),
                               "UserNameInternal", 6, key, max)
            /\ \A key \in QueryIPs :
                   RightAnswer(GetPostsByIPInternal(Cur, key, max),
                               "IpAddrInternal", 5, key, max)

====
